---- MODULE Spec2Model ----
(***************************************************************************)
(* Pipeline orchestration engine of AetherFrame.                           *)
(*                                                                         *)
(* The model follows PipelineExecutor.execute (core/pipeline.py) stage by  *)
(* stage, and the worker task process_job (core/tasks.py) that drives it   *)
(* and persists what it returns through core/repository.py.                *)
(*                                                                         *)
(* Risk scores are floats in [0,1] in the source; here they are tenths     *)
(* (0.7 is 7), which keeps max and >= exact.                               *)
(*                                                                         *)
(* Spec is one call of execute, by the worker or by another caller.        *)
(* SpecWorker is the worker on short pipelines, with plugin runs of any    *)
(* duration and a broker that may deliver the task of a job again.         *)
(***************************************************************************)
EXTENDS Integers, Sequences, FiniteSets, TLC

(***************************************************************************)
(* Bounds                                                                  *)
(***************************************************************************)
\* longest programmatically registered pipeline
MaxStages == 2
\* a store write that fails is one of the first MaxFailRow rows of the batch
MaxFailRow == 2
\* times the broker hands the task of one job to a worker
MaxDeliveries == 2
\* calls of get_instance in a run
MaxCalls == 3
\* entries of a manifest's dependencies list
MaxDeps == 2
\* entries of the plugins directory
MaxBundles == 2
\* POST /jobs requests in a run
MaxPosts == 2

(***************************************************************************)
(* Optional values and dictionaries                                        *)
(***************************************************************************)
\* Optional[T] of Python: None is the empty sequence, a value v is <<v>>
None == <<>>
Some(v) == <<v>>
\* an Optional[str] column left unset
NoneStr == "None"

\* a Python dict with string keys
EmptyDict == [k \in {} |-> 0]
DictGet(d, k, default) == IF k \in DOMAIN d THEN d[k] ELSE default
\* dict.update(e)
DictUpdate(d, e) == [k \in (DOMAIN d) \cup (DOMAIN e) |-> IF k \in DOMAIN e THEN e[k] ELSE d[k]]
\* d[k] = v
DictSet(d, k, v) == [x \in (DOMAIN d) \cup {k} |-> IF x = k THEN v ELSE d[x]]

Max(a, b) == IF a >= b THEN a ELSE b

(***************************************************************************)
(* Pipeline catalogue                                                      *)
(***************************************************************************)
StageCondition == {"always", "on_success", "on_failure", "on_findings", "on_high_risk", "conditional"}

\* PipelineStage.timeout_seconds: int = 300
DefaultTimeoutSeconds == 300

\* PipelineStage; condition_expr is "none" (None) or "expr" (some expression
\* string); timeout_seconds keeps its default, add_stage has no parameter for it
PipelineStage(name, plugin_id, condition, condition_expr, optional) ==
    [name |-> name, plugin_id |-> plugin_id, condition |-> condition,
     condition_expr |-> condition_expr, timeout_seconds |-> DefaultTimeoutSeconds,
     optional |-> optional]

\* Pipeline.add_stage: condition defaults to on_success, optional to False
add_stage(stages, name, plugin_id, condition, optional) ==
    Append(stages, PipelineStage(name, plugin_id, condition, "none", optional))

\* the built-in pipelines of _register_builtin_pipelines
Quicklook ==
    add_stage(add_stage(add_stage(<<>>,
        "gate", "umbriel", "always", FALSE),
        "static", "static_analyzer", "on_success", TRUE),
        "intent", "noema", "on_success", FALSE)

DeepStatic ==
    add_stage(add_stage(add_stage(<<>>,
        "static", "static_analyzer", "always", FALSE),
        "anti-analysis", "umbriel", "on_success", FALSE),
        "intent", "noema", "on_success", FALSE)

ReleaseWatch ==
    add_stage(add_stage(add_stage(add_stage(<<>>,
        "diff", "valkyrie", "always", FALSE),
        "risk-score", "valkyrie", "on_success", FALSE),
        "trace-deltas", "laintrace", "on_high_risk", TRUE),
        "intent", "noema", "on_success", FALSE)

\* names of the stages of a programmatically registered pipeline
StageNames == <<"s1", "s2", "s3", "s4", "s5">>

\* the stages a caller can register: every condition, optional or not;
\* a conditional stage with or without an expression
CustomStage(k) ==
    { PipelineStage(StageNames[k], "plugin1", c, e, o) :
        c \in StageCondition \ {"conditional"}, e \in {"none"}, o \in BOOLEAN }
    \cup
    { PipelineStage(StageNames[k], "plugin1", "conditional", e, o) :
        e \in {"none", "expr"}, o \in BOOLEAN }

RECURSIVE CustomPipelines(_)
CustomPipelines(n) ==
    IF n = 0 THEN {<<>>}
    ELSE LET shorter == CustomPipelines(n - 1)
         IN  shorter \cup
             { Append(p, s) : p \in {q \in shorter : Len(q) = n - 1}, s \in CustomStage(n) }

\* PIPELINES: what a job's pipeline_id can resolve to
PIPELINES == {Quicklook, DeepStatic, ReleaseWatch} \cup CustomPipelines(MaxStages)

(***************************************************************************)
(* Schemas                                                                 *)
(***************************************************************************)
JobIds == {"job-1"}

\* risk scores a plugin reports, in tenths
RiskScores == {3, 8}
\* on_high_risk threshold (0.7)
HighRisk == 7

\* schemas.TraceEvent: no plugin_id and no stage attribute; sequence defaults to 0
TraceEvent(job_id, source, event_type, payload) ==
    [job_id |-> job_id, source |-> source, event_type |-> event_type,
     sequence |-> 0, payload |-> payload]

\* schemas.Finding / schemas.Artifact as a plugin builds them: job_id from
\* ctx.job.id, plugin_id and stage left at their default None
Finding(job_id) == [job_id |-> job_id, plugin_id |-> NoneStr, stage |-> NoneStr]
Artifact(job_id) == [job_id |-> job_id, plugin_id |-> NoneStr, stage |-> NoneStr]

\* what one plugin run hands back: nothing, or one finding, one artifact and one event
PluginOutputs(job_id) ==
    { [findings |-> <<>>, artifacts |-> <<>>, events |-> <<>>],
      [findings |-> <<Finding(job_id)>>, artifacts |-> <<Artifact(job_id)>>,
       events |-> <<TraceEvent(job_id, "plugin", "info", EmptyDict)>>] }

\* context_data a plugin returns: nothing, or an entry under the executor's own key
ContextDatas == { EmptyDict, [k \in {"_risk_score"} |-> 2] }

\* schemas.PluginResult
PluginResult(o, success, skip_remaining, risk_score, context_data) ==
    [findings |-> o.findings, artifacts |-> o.artifacts, events |-> o.events,
     success |-> success, skip_remaining |-> skip_remaining,
     risk_score |-> risk_score, context_data |-> context_data]

PluginResults(job_id) ==
    { PluginResult(o, s, k, r, c) :
        o \in PluginOutputs(job_id), s \in BOOLEAN, k \in BOOLEAN,
        r \in {None} \cup {Some(v) : v \in RiskScores}, c \in ContextDatas }

\* context_data with a key of the plugins' own, set to one value or another
FlowContextDatas == ContextDatas \cup { [k \in {"mode"} |-> 1], [k \in {"mode"} |-> 2] }

\* plugin results for following the data from stage to stage: one risk score,
\* any of the context_data above
FlowResults(job_id) ==
    { PluginResult(o, s, k, r, c) :
        o \in PluginOutputs(job_id), s \in BOOLEAN, k \in BOOLEAN,
        r \in {None, Some(3)}, c \in FlowContextDatas }

\* plugin results for following jobs through the queue: outputs or none,
\* success or not, no risk score, no context_data, no skip_remaining
PlainResults(job_id) ==
    { PluginResult(o, s, FALSE, None, EmptyDict) : o \in PluginOutputs(job_id), s \in BOOLEAN }

\* the ways a stage can throw before it has a result
RaiseCauses == {"get_instance", "validate", "run"}

\* seconds a call of plugin.run takes before it returns: less than the
\* stage's timeout, or more
WithinTimeout == DefaultTimeoutSeconds - 1
RunSeconds == {WithinTimeout, DefaultTimeoutSeconds + 1}

(***************************************************************************)
(* State                                                                   *)
(***************************************************************************)
VARIABLES
    driver,             \* "worker": process_job drives the executor; "direct": a caller of execute
    on_stage_complete,  \* PipelineExecutor.on_stage_complete is set
    job_id,             \* job.id of the job being run
    pipeline_known,     \* pipeline_id in PIPELINES
    pipeline,           \* PIPELINES[pipeline_id].stages
    target_exists,      \* the job's target is a path that exists
    exec_pc,            \* "idle", "loop", "returned", "raised"
    idx,                \* stages of the for loop already evaluated
    stages_executed, stages_skipped, stages_failed,
    all_findings, all_artifacts, all_events,
    running_context, last_result, max_risk,
    result,             \* the PipelineExecutionResult returned, None before
    worker_pc,          \* "queued", "executing", "done", "raised", "none"
    deliveries,         \* times the task of the job has been handed to the worker
    jobs,               \* jobs table: id -> [status, result, created_at]
    db_findings, db_artifacts, db_trace_events, db_events,
    cancel_call,        \* None, or what the job was doing when cancel was called for it
    plugins_dir,        \* the bundles of the plugins directory, in iterdir order
    _manifests,         \* PluginRegistry._manifests: plugin id -> manifest
    discovered,         \* what discover returned, None before
    resolved,           \* what resolve_dependencies returned, None before
    _instances,         \* PluginRegistry._instances: cache key -> instance
    calls,              \* the call of get_instance each thread is in
    created,            \* the plugin instances constructed so far, in order
    returned,           \* the calls of get_instance that have ended, in order
    dirs,               \* the directories that exist under the worker's temporary directory
    queue,              \* the tasks sent to the broker and not yet taken by the worker
    posts               \* the POST /jobs requests handled so far, in order

exec_vars == <<exec_pc, idx, stages_executed, stages_skipped, stages_failed,
               all_findings, all_artifacts, all_events,
               running_context, last_result, max_risk, result>>
input_vars == <<driver, on_stage_complete, job_id, pipeline_known, pipeline, target_exists>>
db_vars == <<jobs, db_findings, db_artifacts, db_trace_events, db_events>>
registry_vars == <<plugins_dir, _manifests, discovered, resolved, _instances, calls, created, returned>>
api_vars == <<queue, posts>>
vars == <<input_vars, exec_vars, worker_pc, deliveries, db_vars, cancel_call, registry_vars,
          dirs, api_vars>>

(***************************************************************************)
(* PipelineExecutor                                                        *)
(***************************************************************************)
_should_execute_stage_NoFirstRule(stage, last, context, eval_result) ==
    IF stage.condition = "always" \/ last = None THEN TRUE
    ELSE IF stage.condition = "on_success" THEN last[1].success
    ELSE IF stage.condition = "on_failure" THEN ~last[1].success
    ELSE IF stage.condition = "on_findings" THEN Len(last[1].findings) > 0
    ELSE IF stage.condition = "on_high_risk" THEN DictGet(context, "_risk_score", 0) >= HighRisk
    ELSE IF stage.condition = "conditional" /\ stage.condition_expr # "none" THEN eval_result
    ELSE TRUE

\* PipelineExecutor._should_execute_stage; eval_result is what eval(condition_expr)
\* gives (False when it raises)
_should_execute_stage(stage, last, context, eval_result) ==
    IF stage.condition = "always" THEN TRUE
    ELSE IF last = None THEN stage.condition = "always"
    ELSE IF stage.condition = "on_success" THEN last[1].success
    ELSE IF stage.condition = "on_failure" THEN ~last[1].success
    ELSE IF stage.condition = "on_findings" THEN Len(last[1].findings) > 0
    ELSE IF stage.condition = "on_high_risk" THEN DictGet(context, "_risk_score", 0) >= HighRisk
    ELSE IF stage.condition = "conditional" /\ stage.condition_expr # "none" THEN eval_result
    ELSE TRUE

\* the values eval(condition_expr) can give for a stage
EvalResults(stage) ==
    IF stage.condition = "conditional" /\ stage.condition_expr # "none" THEN BOOLEAN ELSE {FALSE}

\* dataclass PipelineExecutionResult
PipelineExecutionResult(success, ex, sk, fl, fs, ars, evs, error, risk) ==
    [job_id |-> job_id, success |-> success,
     stages_executed |-> ex, stages_skipped |-> sk, stages_failed |-> fl,
     total_findings |-> fs, total_artifacts |-> ars, total_events |-> evs,
     error |-> error, risk_score |-> risk]

\* last_result = result, kept as the attributes _should_execute_stage reads
LastResult(res) == [success |-> res.success, findings |-> res.findings]

Annotate_NoStamp(items, stage) == items

\* "Annotate results with stage info"
Annotate(items, stage) ==
    [n \in 1..Len(items) |-> [items[n] EXCEPT !.plugin_id = stage.plugin_id, !.stage = stage.name]]

UpdateContext_KeepsEarlier(context, res, risk) ==
    LET merged == DictUpdate(res.context_data, context)
    IN  IF res.risk_score # None /\ res.risk_score[1] # 0
        THEN DictSet(merged, "_risk_score", Max(risk, res.risk_score[1]))
        ELSE merged

\* "Update context": merge context_data, then carry the maximum risk forward
UpdateContext(context, res, risk) ==
    LET merged == DictUpdate(context, res.context_data)
    IN  IF res.risk_score # None /\ res.risk_score[1] # 0
        THEN DictSet(merged, "_risk_score", Max(risk, res.risk_score[1]))
        ELSE merged

UpdateMaxRisk(res, risk) ==
    IF res.risk_score # None /\ res.risk_score[1] # 0 THEN Max(risk, res.risk_score[1]) ELSE risk

StageCompleteEvent(stage, res) ==
    TraceEvent(job_id, "orchestrator", "stage_complete",
               [stage |-> stage.name, plugin |-> stage.plugin_id,
                findings |-> Len(res.findings), artifacts |-> Len(res.artifacts)])

StageErrorEvent_AsComplete(stage, cause) ==
    TraceEvent(job_id, "orchestrator", "stage_complete", [stage |-> stage.name, error |-> cause])

StageErrorEvent(stage, cause) ==
    TraceEvent(job_id, "orchestrator", "stage_error", [stage |-> stage.name, error |-> cause])

PipelineStartEvent ==
    TraceEvent(job_id, "orchestrator", "stage_start",
               [stages |-> [n \in 1..Len(pipeline) |-> pipeline[n].name]])

NormalReturn_AlwaysSuccess(ex, sk, fl, fs, ars, evs, risk) ==
    PipelineExecutionResult(TRUE, ex, sk, fl, fs, ars, evs, None, risk)

\* the return after the for loop
NormalReturn(ex, sk, fl, fs, ars, evs, risk) ==
    PipelineExecutionResult(fl = <<>>, ex, sk, fl, fs, ars, evs, None, risk)

\* the return from the except block of a non-optional stage
ErrorReturn(stage, cause, ex, sk, fl, fs, ars, evs, risk) ==
    PipelineExecutionResult(FALSE, ex, sk, fl, fs, ars, evs,
                            Some([stage |-> stage.name, cause |-> cause]), risk)

\* one iteration of the for loop has left the lists as given; how = "next"
\* (fall through to the next stage), "break" (skip_remaining), or "return"
\* (the early return of the except block, with ret its result)
LoopStep(ex, sk, fl, fs, ars, evs, ctx, last, risk, how, ret) ==
    /\ stages_executed' = ex
    /\ stages_skipped' = sk
    /\ stages_failed' = fl
    /\ all_findings' = fs
    /\ all_artifacts' = ars
    /\ all_events' = evs
    /\ running_context' = ctx
    /\ last_result' = last
    /\ max_risk' = risk
    /\ idx' = idx + 1
    /\ IF how = "return"
       THEN exec_pc' = "returned" /\ result' = Some(ret)
       ELSE IF how = "break" \/ idx + 1 = Len(pipeline)
       THEN exec_pc' = "returned" /\ result' = Some(NormalReturn(ex, sk, fl, fs, ars, evs, risk))
       ELSE exec_pc' = "loop" /\ result' = None

OnStageError_IgnoresOptional(stage) == "return"

OnStageError_NeverHalts(stage) == "next"

\* "if not stage.optional: return ..." at the end of the except block
OnStageError(stage) == IF stage.optional THEN "next" ELSE "return"

\* the except block, entered with the aggregators as given
ExceptBlock(stage, cause, ex, fs, ars, evs, ctx, last, risk) ==
    LET fl == Append(stages_failed, stage.name)
        evs2 == Append(evs, StageErrorEvent(stage, cause))
    IN  LoopStep(ex, stages_skipped, fl, fs, ars, evs2, ctx, last, risk,
                 OnStageError(stage),
                 ErrorReturn(stage, cause, ex, stages_skipped, fl, fs, ars, evs2, risk))

\* execute up to the for loop: the aggregators are empty and the pipeline
\* start event is recorded; an empty pipeline returns at once
ExecuteBegin ==
    /\ stages_executed' = <<>>
    /\ stages_skipped' = <<>>
    /\ stages_failed' = <<>>
    /\ all_findings' = <<>>
    /\ all_artifacts' = <<>>
    /\ all_events' = <<PipelineStartEvent>>
    /\ running_context' = EmptyDict
    /\ last_result' = None
    /\ max_risk' = 0
    /\ idx' = 0
    /\ IF Len(pipeline) = 0
       THEN exec_pc' = "returned"
            /\ result' = Some(NormalReturn(<<>>, <<>>, <<>>, <<>>, <<>>, <<PipelineStartEvent>>, 0))
       ELSE exec_pc' = "loop" /\ result' = None

\* a caller other than the worker invokes execute (Orchestrator.execute, a library user)
DirectExecute ==
    /\ driver = "direct"
    /\ exec_pc = "idle"
    /\ IF pipeline_known
       THEN ExecuteBegin
       ELSE exec_pc' = "raised"
            /\ UNCHANGED <<idx, stages_executed, stages_skipped, stages_failed, all_findings,
                           all_artifacts, all_events, running_context, last_result, max_risk, result>>
    /\ UNCHANGED <<input_vars, dirs, api_vars, cancel_call, registry_vars, worker_pc, deliveries, db_vars>>

\* a stage whose condition is not met
StageSkipped ==
    /\ exec_pc = "loop"
    /\ LET stage == pipeline[idx + 1]
       IN  \E ev \in EvalResults(stage) :
             /\ ~_should_execute_stage(stage, last_result, running_context, ev)
             /\ LoopStep(stages_executed, Append(stages_skipped, stage.name), stages_failed,
                         all_findings, all_artifacts, all_events,
                         running_context, last_result, max_risk, "next", None)
    /\ UNCHANGED <<input_vars, dirs, api_vars, cancel_call, registry_vars, worker_pc, deliveries, db_vars>>

\* a stage whose plugin returns res after running for seconds: the body of the
\* try block, which never reads stage.timeout_seconds; the on_stage_complete
\* callback, when there is one, returns or raises
StageRun(res, callback_raises, seconds) ==
    /\ exec_pc = "loop"
    /\ seconds \in RunSeconds
    /\ callback_raises => on_stage_complete
    /\ LET stage == pipeline[idx + 1]
           fs == all_findings \o Annotate(res.findings, stage)
           ars == all_artifacts \o Annotate(res.artifacts, stage)
           ex == Append(stages_executed, stage.name)
           ctx == UpdateContext(running_context, res, max_risk)
           risk == UpdateMaxRisk(res, max_risk)
           evs == Append(all_events \o res.events, StageCompleteEvent(stage, res))
       IN  /\ \E ev \in EvalResults(stage) :
                _should_execute_stage(stage, last_result, running_context, ev)
           /\ IF callback_raises
              THEN ExceptBlock(stage, "on_stage_complete", ex, fs, ars, evs, ctx, Some(LastResult(res)), risk)
              ELSE LoopStep(ex, stages_skipped, stages_failed, fs, ars, evs, ctx, Some(LastResult(res)), risk,
                            IF res.skip_remaining THEN "break" ELSE "next", None)
    /\ UNCHANGED <<input_vars, dirs, api_vars, cancel_call, registry_vars, worker_pc, deliveries, db_vars>>

StageRaises_AfterRun(cause) ==
    /\ exec_pc = "loop"
    /\ LET stage == pipeline[idx + 1]
       IN  /\ \E ev \in EvalResults(stage) :
                _should_execute_stage(stage, last_result, running_context, ev)
           /\ ExceptBlock(stage, cause, Append(stages_executed, stage.name), all_findings,
                          all_artifacts, all_events, running_context, last_result, max_risk)
    /\ UNCHANGED <<input_vars, dirs, api_vars, cancel_call, registry_vars, worker_pc, deliveries, db_vars>>

\* a stage that throws before it has a result: the plugin is missing or fails
\* to load (get_instance), validate rejects, or run throws
StageRaises(cause) ==
    /\ exec_pc = "loop"
    /\ LET stage == pipeline[idx + 1]
       IN  /\ \E ev \in EvalResults(stage) :
                _should_execute_stage(stage, last_result, running_context, ev)
           /\ ExceptBlock(stage, cause, stages_executed, all_findings, all_artifacts, all_events,
                          running_context, last_result, max_risk)
    /\ UNCHANGED <<input_vars, dirs, api_vars, cancel_call, registry_vars, worker_pc, deliveries, db_vars>>

(***************************************************************************)
(* Repository                                                              *)
(***************************************************************************)
\* repository.create_finding / create_artifact: the columns written
create_finding(f) == [job_id |-> f.job_id, plugin_id |-> f.plugin_id, stage |-> f.stage]
create_artifact(a) == [job_id |-> a.job_id, plugin_id |-> a.plugin_id, stage |-> a.stage]
\* repository.create_trace_event
create_trace_event(e) ==
    [job_id |-> e.job_id, source |-> e.source, event_type |-> e.event_type,
     sequence |-> e.sequence, payload |-> e.payload]
\* repository.create_event
create_event(event_type, payload, jid) == [event_type |-> event_type, payload |-> payload, job_id |-> jid]

\* repository.create_job: the columns of models.Job the worker reads or
\* writes, and created_at (the clock reads 0 when the job is inserted); the
\* table has no started_at and no completed_at column
create_job == [status |-> "pending", result |-> None, created_at |-> 0]

update_job_status_EveryRow(table, jid, status, res) ==
    [j \in DOMAIN table |->
        [table[j] EXCEPT !.status = status,
                         !.result = IF res # None THEN res ELSE table[j].result]]

\* repository.update_job_status: an absent job is left alone; the status is
\* overwritten whatever it was
update_job_status(table, jid, status, res) ==
    IF jid \in DOMAIN table
    THEN [table EXCEPT ![jid].status = status,
                       ![jid].result = IF res # None THEN res ELSE table[jid].result]
    ELSE table

Prefix(seq, n) == SubSeq(seq, 1, IF n < Len(seq) THEN n ELSE Len(seq))

(***************************************************************************)
(* Worker                                                                  *)
(***************************************************************************)
\* the payload of the except block of process_job; ts is time.time() at
\* that moment, a reading of the clock the model does not tell apart
fail_payload(exc) == [error |-> exc, ts |-> "now"]

\* the summary process_job stores on the job; error only when result.error is set
final_result(r) ==
    IF r.error # None
    THEN [stages_executed |-> r.stages_executed, stages_failed |-> r.stages_failed,
          risk_score |-> r.risk_score, findings_count |-> Len(r.total_findings),
          artifacts_count |-> Len(r.total_artifacts), error |-> r.error[1]]
    ELSE [stages_executed |-> r.stages_executed, stages_failed |-> r.stages_failed,
          risk_score |-> r.risk_score, findings_count |-> Len(r.total_findings),
          artifacts_count |-> Len(r.total_artifacts)]

WorkerExcept_NoEvent(table, exc) ==
    /\ jobs' = update_job_status(table, job_id, "failed", Some(fail_payload(exc)))
    /\ UNCHANGED db_events
    /\ worker_pc' = "raised"

\* the except block of process_job: the job is failed and a job_failed event is written
WorkerExcept(table, exc) ==
    /\ jobs' = update_job_status(table, job_id, "failed", Some(fail_payload(exc)))
    /\ db_events' = Append(db_events, create_event("job_failed", fail_payload(exc), job_id))
    /\ worker_pc' = "raised"

\* tempfile.gettempdir() / "aetherframe" / str(job_id), and "artifacts" inside it
WorkspaceDir(jid) == <<"aetherframe", jid>>
ArtifactsDir(jid) == <<"aetherframe", jid, "artifacts">>

\* process_job from pickup to the call of execute: the job is set running
\* whatever its status was (update_job_status commits), the executor is built
\* without a callback, the workspace and the artifacts directory inside it
\* are made, and execute starts or raises ValueError
ProcessJobStart ==
    /\ driver = "worker"
    /\ worker_pc = "queued"
    /\ exec_pc = "idle"
    /\ LET running == update_job_status(jobs, job_id, "running", None)
       IN  jobs' = running
    /\ IF pipeline_known
       THEN ExecuteBegin
       ELSE /\ exec_pc' = "raised"
            /\ UNCHANGED <<idx, stages_executed, stages_skipped, stages_failed, all_findings,
                           all_artifacts, all_events, running_context, last_result,
                           max_risk, result>>
    /\ dirs' = dirs \cup {WorkspaceDir(job_id), ArtifactsDir(job_id)}
    /\ worker_pc' = "executing"
    /\ UNCHANGED <<input_vars, api_vars, cancel_call, registry_vars, deliveries, db_findings, db_artifacts, db_trace_events, db_events>>

\* execute raised ValueError for an unknown pipeline: the except block of process_job
ProcessJobRaised ==
    /\ driver = "worker"
    /\ worker_pc = "executing"
    /\ exec_pc = "raised"
    /\ WorkerExcept(jobs, "Unknown pipeline")
    /\ UNCHANGED <<input_vars, dirs, api_vars, cancel_call, registry_vars, exec_vars, deliveries, db_findings, db_artifacts, db_trace_events>>

\* process_job after execute returned: findings, artifacts and trace events
\* are written row by row, each in its own commit, then the job gets its
\* final status and summary.  fail_at = 0: every write succeeds; otherwise the
\* write of row number fail_at raises and the except block runs.
ProcessJobFinish(fail_at) ==
    /\ driver = "worker"
    /\ worker_pc = "executing"
    /\ exec_pc = "returned"
    /\ LET r == result[1]
           status == IF r.success THEN "completed" ELSE "failed"
           nf == Len(r.total_findings)
           na == Len(r.total_artifacts)
           ne == Len(r.total_events)
           written == IF fail_at = 0 THEN nf + na + ne ELSE fail_at - 1
           fs == Prefix(r.total_findings, written)
           ars == Prefix(r.total_artifacts, Max(written - nf, 0))
           evs == Prefix(r.total_events, Max(written - nf - na, 0))
       IN  /\ fail_at \in 0..(nf + na + ne)
           /\ db_findings' = db_findings \o [n \in 1..Len(fs) |-> create_finding(fs[n])]
           /\ db_artifacts' = db_artifacts \o [n \in 1..Len(ars) |-> create_artifact(ars[n])]
           /\ db_trace_events' = db_trace_events \o [n \in 1..Len(evs) |-> create_trace_event(evs[n])]
           /\ IF fail_at = 0
              THEN /\ jobs' = update_job_status(jobs, job_id, status, Some(final_result(r)))
                   /\ worker_pc' = "done"
                   /\ UNCHANGED db_events
              ELSE WorkerExcept(jobs, "store write failed")
    /\ UNCHANGED <<input_vars, dirs, api_vars, cancel_call, registry_vars, exec_vars, deliveries>>

\* the broker hands the task of the job to a worker once more, after the
\* earlier delivery has ended (the task returned or raised); the locals of the
\* earlier call of process_job are gone, the store is as it left it
Redeliver ==
    /\ driver = "worker"
    /\ worker_pc \in {"done", "raised"}
    /\ deliveries < MaxDeliveries
    /\ deliveries' = deliveries + 1
    /\ worker_pc' = "queued"
    /\ exec_pc' = "idle"
    /\ idx' = 0
    /\ stages_executed' = <<>>
    /\ stages_skipped' = <<>>
    /\ stages_failed' = <<>>
    /\ all_findings' = <<>>
    /\ all_artifacts' = <<>>
    /\ all_events' = <<>>
    /\ running_context' = EmptyDict
    /\ last_result' = None
    /\ max_risk' = 0
    /\ result' = None
    /\ UNCHANGED <<input_vars, dirs, api_vars, cancel_call, registry_vars, db_vars>>

(***************************************************************************)
(* API and queue                                                           *)
(***************************************************************************)
\* the ids the jobs table hands out, in order (an autoincrement key)
JobIdSeq == <<"job-1", "job-2", "job-3", "job-4">>

\* the bodies of POST /jobs: one target, a pipeline id that is registered
\* or one that is not
Payloads == [target : {"/samples/a.bin"}, pipeline_id : {"quicklook", "no-such-pipeline"}]

\* the row repository.create_job inserts: status defaults to pending
JobRow(target, pipeline_id) ==
    [status |-> "pending", result |-> None, created_at |-> 0,
     target |-> target, pipeline_id |-> pipeline_id]

\* POST /jobs: the row is inserted and committed, then the task is sent.
\* send_task either reaches the broker, or raises because it does not, and
\* the request ends in an error with the row left as it is.
PostJobs(payload, broker_up) ==
    /\ Len(posts) < MaxPosts
    /\ LET id == JobIdSeq[Cardinality(DOMAIN jobs) + 1]
       IN  /\ jobs' = DictSet(jobs, id, JobRow(payload.target, payload.pipeline_id))
           /\ queue' = IF broker_up
                       THEN Append(queue, [job_id |-> id, target |-> payload.target])
                       ELSE queue
           /\ posts' = Append(posts, [payload |-> payload, job_id |-> id, accepted |-> broker_up])
    /\ UNCHANGED <<input_vars, exec_vars, worker_pc, deliveries, db_findings, db_artifacts,
                   db_trace_events, db_events, cancel_call, registry_vars, dirs>>

\* the worker, not busy with a task, is handed the next task of the queue:
\* process_job is called with the task's arguments and reads the job's
\* pipeline_id ("quicklook" is the only one of the ids above in PIPELINES)
TakeTask ==
    /\ driver = "worker"
    /\ worker_pc \in {"none", "done", "raised"}
    /\ queue # <<>>
    /\ queue' = Tail(queue)
    /\ job_id' = Head(queue).job_id
    /\ pipeline_known' = (jobs[Head(queue).job_id].pipeline_id = "quicklook")
    /\ pipeline' = IF jobs[Head(queue).job_id].pipeline_id = "quicklook" THEN Quicklook ELSE <<>>
    /\ deliveries' = 1
    /\ worker_pc' = "queued"
    /\ exec_pc' = "idle"
    /\ idx' = 0
    /\ stages_executed' = <<>>
    /\ stages_skipped' = <<>>
    /\ stages_failed' = <<>>
    /\ all_findings' = <<>>
    /\ all_artifacts' = <<>>
    /\ all_events' = <<>>
    /\ running_context' = EmptyDict
    /\ last_result' = None
    /\ max_risk' = 0
    /\ result' = None
    /\ UNCHANGED <<driver, on_stage_complete, target_exists, db_vars, cancel_call,
                   registry_vars, dirs, posts>>

(***************************************************************************)
(* Cancellation                                                            *)
(***************************************************************************)
\* Orchestrator.cancel, called once for the job while the worker holds its
\* task or before: the Job the orchestrator looks up is the job as the store
\* has it, and update_job writes it back.  Only a running job is cancelled;
\* for any other status the call returns False and changes nothing.
\* cancel_call keeps what the job was doing when the call was made.
cancel ==
    /\ driver = "worker"
    /\ cancel_call = None
    /\ LET job == jobs[job_id]
       IN  /\ cancel_call' = Some([status |-> job.status,
                                   started |-> Len(stages_executed) + Len(stages_failed),
                                   returned |-> (job.status = "running")])
           /\ jobs' = IF job.status = "running"
                      THEN [jobs EXCEPT ![job_id].status = "cancelled"]
                      ELSE jobs
    /\ UNCHANGED <<input_vars, dirs, api_vars, registry_vars, exec_vars, worker_pc, deliveries,
                   db_findings, db_artifacts, db_trace_events, db_events>>

(***************************************************************************)
(* Plugin registry                                                         *)
(***************************************************************************)
\* the threads of one worker process that share the registry
Threads == {"t1", "t2"}

\* a thread that is not inside get_instance
NoCall == [pc |-> "idle"]

\* an empty instance cache and no call of get_instance under way
CacheAtRest ==
    /\ _instances = EmptyDict
    /\ calls = [t \in Threads |-> NoCall]
    /\ created = <<>>
    /\ returned = <<>>

\* PluginRegistry.__init__: nothing discovered, nothing cached
RegistryAtRest ==
    /\ plugins_dir = <<>>
    /\ _manifests = EmptyDict
    /\ discovered = None
    /\ resolved = None
    /\ CacheAtRest

\* base.PluginKind
PluginKind == {"detector", "differ", "tracer", "reconstructor", "inferencer",
               "analyzer", "reporter"}

\* base.PluginManifest: the fields the registry and validate read
PluginManifest(id, version, kind, capabilities, dependencies) ==
    [id |-> id, version |-> version, kind |-> kind,
     capabilities |-> capabilities, dependencies |-> dependencies]

(***************************************************************************)
(* Plugin registry: get_instance                                           *)
(***************************************************************************)
\* the registry after discover found the bundles of umbriel and noema
TwoPlugins ==
    [id \in {"umbriel", "noema"} |->
        PluginManifest(id, "0.1.0", "detector", <<"scan">>, <<>>)]

\* plugin ids get_instance is called with: the registered ones and one that is not
CalledIds == {"umbriel", "noema", "ghost"}

\* configs get_instance is called with (a call without config behaves as {})
Configs == {EmptyDict, [a |-> -1], [a |-> -2]}

\* hash() of an int in CPython: -1 is the error return of the C hash
\* functions, so hash(-1) is -2; any other small int is its own hash
PyHash(n) == IF n = -1 THEN -2 ELSE n

\* hash(frozenset(config.items())): the hash of a frozenset is computed from
\* the hashes of its members, the hash of an item from the hashes of its key
\* and value
ItemsHash(config) == {<<k, PyHash(config[k])>> : k \in DOMAIN config}

\* f"{plugin_id}:{hash(frozenset((config or {}).items()))}"
cache_key(plugin_id, config) == <<plugin_id, ItemsHash(config)>>

\* Plugin.__init__; serial tells one object from another
Plugin(serial, manifest, config) ==
    [serial |-> serial, manifest |-> manifest.id, config |-> config]

\* calls of get_instance that have begun
Started == Len(returned) + Cardinality({t \in Threads : calls[t].pc # "idle"})

\* get_instance: the cache key is computed and looked up
GetInstanceCheck(t, plugin_id, config) ==
    /\ calls[t].pc = "idle"
    /\ Started < MaxCalls
    /\ LET key == cache_key(plugin_id, config)
       IN  calls' = [calls EXCEPT ![t] =
                        [pc |-> IF key \in DOMAIN _instances THEN "return" ELSE "load",
                         plugin_id |-> plugin_id, config |-> config, cache_key |-> key]]
    /\ UNCHANGED <<input_vars, dirs, api_vars, exec_vars, worker_pc, deliveries, db_vars, cancel_call,
                   plugins_dir, _manifests, discovered, resolved, _instances, created, returned>>

\* get_instance after a miss: load raises (KeyError for an id without
\* manifest, ImportError when the module cannot be imported) and the call
\* ends, or the class is instantiated and stored under the key, whatever
\* the cache holds there by now
GetInstanceLoad(t, import_fails) ==
    /\ calls[t].pc = "load"
    /\ LET c == calls[t]
       IN  IF c.plugin_id \notin DOMAIN _manifests \/ import_fails
           THEN /\ returned' = Append(returned, [thread |-> t, plugin_id |-> c.plugin_id,
                                                 config |-> c.config, raised |-> TRUE,
                                                 instance |-> None])
                /\ calls' = [calls EXCEPT ![t] = NoCall]
                /\ UNCHANGED <<_instances, created>>
           ELSE LET new == Plugin(Len(created) + 1, _manifests[c.plugin_id], c.config)
                IN  /\ created' = Append(created, new)
                    /\ _instances' = DictSet(_instances, c.cache_key, new)
                    /\ calls' = [calls EXCEPT ![t].pc = "return"]
                    /\ UNCHANGED returned
    /\ UNCHANGED <<input_vars, dirs, api_vars, exec_vars, worker_pc, deliveries, db_vars, cancel_call,
                   plugins_dir, _manifests, discovered, resolved>>

\* return self._instances[cache_key]
GetInstanceReturn(t) ==
    /\ calls[t].pc = "return"
    /\ LET c == calls[t]
       IN  returned' = Append(returned, [thread |-> t, plugin_id |-> c.plugin_id,
                                         config |-> c.config, raised |-> FALSE,
                                         instance |-> _instances[c.cache_key]])
    /\ calls' = [calls EXCEPT ![t] = NoCall]
    /\ UNCHANGED <<input_vars, dirs, api_vars, exec_vars, worker_pc, deliveries, db_vars, cancel_call,
                   plugins_dir, _manifests, discovered, resolved, _instances, created>>

(***************************************************************************)
(* Plugin registry: discover                                               *)
(***************************************************************************)
\* the characters of a manifest id that str.isalnum accepts; the ids below
\* are written with these, the separators "_" and "-", and the blank
AlnumChars == {"a"}

\* str.replace(ch, "") and str.isalnum() on a string spelled out character
\* by character; isalnum is False for the empty string
replace(str, ch) == SelectSeq(str, LAMBDA c : c # ch)
isalnum(str) == str # <<>> /\ \A n \in 1..Len(str) : str[n] \in AlnumChars

\* the ids manifests carry in the plugins directory, spelled out: empty,
\* plain, with a separator, separators only, with a blank
ManifestIds == {<<>>, <<"a">>, <<"a", "_">>, <<"_", "-">>, <<"a", " ">>}

\* what yaml.safe_load returns for a plugin.yaml that holds a mapping: all
\* the fields from_dict requires and capabilities, or a complete manifest
\* with one field left out
CompleteManifest ==
    [id |-> <<"a">>, name |-> "A", version |-> "0.1.0", kind |-> "detector",
     capabilities |-> <<"scan">>]
Without(data, field) == [k \in (DOMAIN data) \ {field} |-> data[k]]
Mappings ==
    [id : ManifestIds, name : {"A"}, version : {"", "0.1.0"},
     kind : {"detector", "bogus"}, capabilities : {<<>>, <<"scan">>}]
      \cup {Without(CompleteManifest, field) : field \in DOMAIN CompleteManifest}

\* the entries iterdir can yield: a plain file, or a directory whose name
\* starts with "_" or not and whose plugin.yaml is absent, does not parse,
\* or holds a mapping
DirEntries ==
    {[is_dir |-> FALSE, underscore |-> FALSE, yaml |-> "absent", data |-> EmptyDict]}
      \cup [is_dir : {TRUE}, underscore : BOOLEAN, yaml : {"absent", "unparsable"},
            data : {EmptyDict}]
      \cup [is_dir : {TRUE}, underscore : BOOLEAN, yaml : {"mapping"}, data : Mappings]

PluginsDirs == UNION {[1..n -> DirEntries] : n \in 0..MaxBundles}

\* PluginManifest.from_dict raises ValueError: a required key is missing, or
\* PluginKind(data["kind"]) does not exist
from_dict_raises(data) ==
    \/ \E key \in {"id", "name", "version", "kind"} : key \notin DOMAIN data
    \/ data.kind \notin PluginKind

\* PluginManifest.from_dict when it does not raise
from_dict(data) ==
    PluginManifest(data.id, data.version, data.kind,
                   DictGet(data, "capabilities", <<>>), DictGet(data, "dependencies", <<>>))

validate_NoCapabilitiesCheck(manifest) ==
    (IF manifest.id = <<>> \/ ~isalnum(replace(replace(manifest.id, "_"), "-"))
     THEN {"Invalid plugin id"} ELSE {})
      \cup (IF manifest.version = "" THEN {"Version is required"} ELSE {})

\* PluginManifest.validate: the errors found
validate(manifest) ==
    (IF manifest.id = <<>> \/ ~isalnum(replace(replace(manifest.id, "_"), "-"))
     THEN {"Invalid plugin id"} ELSE {})
      \cup (IF manifest.version = "" THEN {"Version is required"} ELSE {})
      \cup (IF manifest.capabilities = <<>>
            THEN {"At least one capability is required"} ELSE {})

\* the body of discover's loop decides to pass an entry over: not a
\* directory, name starting with "_", no plugin.yaml, an exception from
\* from_yaml, or validation errors
Skipped(entry) ==
    \/ ~entry.is_dir
    \/ entry.underscore
    \/ entry.yaml = "absent"
    \/ entry.yaml = "unparsable"
    \/ from_dict_raises(entry.data)
    \/ validate(from_dict(entry.data)) # {}

RECURSIVE DiscoverFrom(_, _, _)
\* discover's loop from the k-th entry on; st holds _manifests and discovered
DiscoverFrom(entries, k, st) ==
    IF k > Len(entries)
    THEN st
    ELSE IF Skipped(entries[k])
         THEN DiscoverFrom(entries, k + 1, st)
         ELSE LET manifest == from_dict(entries[k].data)
              IN  DiscoverFrom(entries, k + 1,
                      [manifests |-> DictSet(st.manifests, manifest.id, manifest),
                       discovered |-> Append(st.discovered, manifest.id)])

\* discover, called once on a fresh registry
discover ==
    /\ discovered = None
    /\ LET st == DiscoverFrom(plugins_dir, 1, [manifests |-> _manifests, discovered |-> <<>>])
       IN  /\ _manifests' = st.manifests
           /\ discovered' = Some(st.discovered)
    /\ UNCHANGED <<input_vars, dirs, api_vars, exec_vars, worker_pc, deliveries, db_vars, cancel_call,
                   plugins_dir, resolved, _instances, calls, created, returned>>

(***************************************************************************)
(* Plugin registry: resolve_dependencies                                   *)
(***************************************************************************)
\* plugin ids that manifests and dependencies lists name
GraphIds == {"umbriel", "noema", "valkyrie"}

\* the dependencies lists a manifest may carry: any ids, registered or not,
\* repeated or not
DependencyLists == UNION {[1..n -> GraphIds] : n \in 0..MaxDeps}

\* the registries discover can leave behind: some of the ids have a manifest,
\* each with a dependencies list
DependencyGraphs ==
    {[id \in DOMAIN deps |-> PluginManifest(id, "0.1.0", "detector", <<"scan">>, deps[id])] :
        deps \in UNION {[ids -> DependencyLists] : ids \in (SUBSET GraphIds) \ {{}}}}

resolve_dependencies_OnlySelf(manifests, plugin_id) == <<plugin_id>>

RECURSIVE visit(_, _, _)
RECURSIVE VisitAll(_, _, _, _)

\* visit(pid) of resolve_dependencies; st holds visited and resolved, and
\* entered, the ids for which the body ran past the visited test, in order.
\* An id seen before is left alone; an id without manifest is marked visited
\* and not appended; otherwise the dependencies are visited in list order
\* and then the id is appended.
visit(manifests, pid, st) ==
    IF pid \in st.visited
    THEN st
    ELSE LET seen == [st EXCEPT !.visited = @ \cup {pid}, !.entered = Append(@, pid)]
         IN  IF pid \in DOMAIN manifests
             THEN LET after == VisitAll(manifests, manifests[pid].dependencies, 1, seen)
                  IN  [after EXCEPT !.resolved = Append(@, pid)]
             ELSE seen

VisitAll_FirstOnly(manifests, deps, k, st) ==
    IF k > Len(deps) THEN st ELSE visit(manifests, deps[k], st)

\* for dep in m.dependencies: visit(dep), from the k-th entry on
VisitAll(manifests, deps, k, st) ==
    IF k > Len(deps)
    THEN st
    ELSE VisitAll(manifests, deps, k + 1, visit(manifests, deps[k], st))

\* visit(plugin_id) on the empty visited set and the empty resolved list
Walk(manifests, plugin_id) ==
    visit(manifests, plugin_id, [visited |-> {}, entered |-> <<>>, resolved |-> <<>>])

\* resolve_dependencies for an id that has a manifest
resolve_dependencies(manifests, plugin_id) == Walk(manifests, plugin_id).resolved

\* one call of resolve_dependencies: get_manifest raises KeyError for an id
\* without manifest, otherwise the list is returned
ResolveDependencies(plugin_id) ==
    /\ resolved = None
    /\ resolved' = Some(IF plugin_id \in DOMAIN _manifests
                        THEN [plugin_id |-> plugin_id, outcome |-> "returned",
                              order |-> resolve_dependencies(_manifests, plugin_id),
                              visits |-> Walk(_manifests, plugin_id).entered]
                        ELSE [plugin_id |-> plugin_id, outcome |-> "KeyError",
                              order |-> <<>>, visits |-> <<>>])
    /\ UNCHANGED <<input_vars, dirs, api_vars, exec_vars, worker_pc, deliveries, db_vars, cancel_call,
                   plugins_dir, _manifests, discovered, _instances, calls, created, returned>>

(***************************************************************************)
(* Specification                                                           *)
(***************************************************************************)
\* a job that has been created and nothing else: the executor has not been
\* called, the task waits in the queue, the store holds the pending job
InitRun ==
    /\ driver \in {"worker", "direct"}
    /\ on_stage_complete = (driver = "direct")
    /\ job_id \in JobIds
    /\ pipeline_known \in BOOLEAN
    /\ pipeline \in (IF pipeline_known THEN PIPELINES ELSE {<<>>})
    /\ exec_pc = "idle"
    /\ idx = 0
    /\ stages_executed = <<>>
    /\ stages_skipped = <<>>
    /\ stages_failed = <<>>
    /\ all_findings = <<>>
    /\ all_artifacts = <<>>
    /\ all_events = <<>>
    /\ running_context = EmptyDict
    /\ last_result = None
    /\ max_risk = 0
    /\ result = None
    /\ worker_pc = (IF driver = "worker" THEN "queued" ELSE "none")
    /\ deliveries = (IF driver = "worker" THEN 1 ELSE 0)
    /\ jobs = [j \in JobIds |-> create_job]
    /\ db_findings = <<>>
    /\ db_artifacts = <<>>
    /\ db_trace_events = <<>>
    /\ db_events = <<>>
    /\ cancel_call = None
    /\ dirs = {}
    /\ queue = <<>>
    /\ posts = <<>>

Init ==
    /\ InitRun
    /\ target_exists = TRUE
    /\ RegistryAtRest

Next ==
    \/ DirectExecute
    \/ ProcessJobStart
    \/ StageSkipped
    \/ \E res \in PluginResults(job_id), callback_raises \in BOOLEAN :
          StageRun(res, callback_raises, WithinTimeout)
    \/ \E cause \in RaiseCauses : StageRaises(cause)
    \/ ProcessJobRaised
    \/ \E fail_at \in 0..MaxFailRow : ProcessJobFinish(fail_at)

\* every plugin run returns within its stage's timeout
Spec == Init /\ [][Next]_vars

\* the worker end to end: a target path that exists or not, plugin runs of
\* any duration, and a broker that delivers the task of a job up to
\* MaxDeliveries times; the job runs a pipeline of one stage, an empty
\* pipeline or an unknown one
InitWorker ==
    /\ InitRun
    /\ driver = "worker"
    /\ Len(pipeline) <= 1
    /\ target_exists \in BOOLEAN
    /\ RegistryAtRest

NextWorker ==
    \/ ProcessJobStart
    \/ StageSkipped
    \/ \E res \in PluginResults(job_id), seconds \in RunSeconds : StageRun(res, FALSE, seconds)
    \/ \E cause \in RaiseCauses : StageRaises(cause)
    \/ ProcessJobRaised
    \/ \E fail_at \in 0..MaxFailRow : ProcessJobFinish(fail_at)
    \/ Redeliver

SpecWorker == InitWorker /\ [][NextWorker]_vars

\* the worker on the quicklook pipeline, its task delivered once, and one
\* call of cancel for the job at any moment
InitCancel ==
    /\ InitRun
    /\ driver = "worker"
    /\ pipeline_known
    /\ pipeline = Quicklook
    /\ target_exists = TRUE
    /\ RegistryAtRest

NextCancel ==
    \/ ProcessJobStart
    \/ StageSkipped
    \/ \E res \in PluginResults(job_id) : StageRun(res, FALSE, WithinTimeout)
    \/ \E cause \in RaiseCauses : StageRaises(cause)
    \/ \E fail_at \in 0..MaxFailRow : ProcessJobFinish(fail_at)
    \/ cancel

SpecCancel == InitCancel /\ [][NextCancel]_vars

\* the API process and one worker: no job yet, nothing queued, the worker idle
InitApi ==
    /\ driver = "worker"
    /\ on_stage_complete = FALSE
    /\ job_id = JobIdSeq[1]
    /\ pipeline_known = FALSE
    /\ pipeline = <<>>
    /\ target_exists = TRUE
    /\ exec_pc = "idle"
    /\ idx = 0
    /\ stages_executed = <<>>
    /\ stages_skipped = <<>>
    /\ stages_failed = <<>>
    /\ all_findings = <<>>
    /\ all_artifacts = <<>>
    /\ all_events = <<>>
    /\ running_context = EmptyDict
    /\ last_result = None
    /\ max_risk = 0
    /\ result = None
    /\ worker_pc = "none"
    /\ deliveries = 0
    /\ jobs = EmptyDict
    /\ db_findings = <<>>
    /\ db_artifacts = <<>>
    /\ db_trace_events = <<>>
    /\ db_events = <<>>
    /\ cancel_call = None
    /\ dirs = {}
    /\ queue = <<>>
    /\ posts = <<>>
    /\ RegistryAtRest

NextApi ==
    \/ \E payload \in Payloads, broker_up \in BOOLEAN : PostJobs(payload, broker_up)
    \/ TakeTask
    \/ ProcessJobStart
    \/ StageSkipped
    \/ \E res \in PlainResults(job_id) : StageRun(res, FALSE, WithinTimeout)
    \/ StageRaises("run")
    \/ ProcessJobRaised
    \/ \E fail_at \in 0..1 : ProcessJobFinish(fail_at)

SpecApi == InitApi /\ [][NextApi]_vars

\* one call of execute on the quicklook pipeline by a caller with a
\* callback, the plugins returning context_data under a key of their own
InitFlow ==
    /\ InitRun
    /\ driver = "direct"
    /\ pipeline_known
    /\ pipeline = Quicklook
    /\ target_exists = TRUE
    /\ RegistryAtRest

NextFlow ==
    \/ DirectExecute
    \/ StageSkipped
    \/ \E res \in FlowResults(job_id), callback_raises \in BOOLEAN :
          StageRun(res, callback_raises, WithinTimeout)
    \/ \E cause \in RaiseCauses : StageRaises(cause)

SpecFlow == InitFlow /\ [][NextFlow]_vars

\* no job under way: the state of the variables of the executor, the worker
\* and the store while only the registry is exercised
NoJob ==
    /\ InitRun
    /\ driver = "direct"
    /\ ~pipeline_known
    /\ target_exists = TRUE

\* the threads of a worker process call get_instance on its registry, in
\* which two plugins are registered
InitInstances ==
    /\ NoJob
    /\ plugins_dir = <<>>
    /\ _manifests = TwoPlugins
    /\ discovered = None
    /\ resolved = None
    /\ CacheAtRest

NextInstances ==
    \/ \E t \in Threads, plugin_id \in CalledIds, config \in Configs :
          GetInstanceCheck(t, plugin_id, config)
    \/ \E t \in Threads, import_fails \in BOOLEAN : GetInstanceLoad(t, import_fails)
    \/ \E t \in Threads : GetInstanceReturn(t)

SpecInstances == InitInstances /\ [][NextInstances]_vars

\* resolve_dependencies called once on a registry holding any of the
\* dependency graphs
InitResolve ==
    /\ NoJob
    /\ plugins_dir = <<>>
    /\ _manifests \in DependencyGraphs
    /\ discovered = None
    /\ resolved = None
    /\ CacheAtRest

NextResolve == \E plugin_id \in GraphIds : ResolveDependencies(plugin_id)

SpecResolve == InitResolve /\ [][NextResolve]_vars

\* discover called on a fresh registry whose plugins directory holds any
\* entries
InitDiscover ==
    /\ NoJob
    /\ plugins_dir \in PluginsDirs
    /\ _manifests = EmptyDict
    /\ discovered = None
    /\ resolved = None
    /\ CacheAtRest

NextDiscover == discover

SpecDiscover == InitDiscover /\ [][NextDiscover]_vars

(***************************************************************************)
(* Properties                                                              *)
(***************************************************************************)
Range(seq) == {seq[n] : n \in 1..Len(seq)}
Last(seq) == seq[Len(seq)]
Occurrences(seq, x) == Cardinality({n \in 1..Len(seq) : seq[n] = x})
Recorded == Range(stages_executed) \cup Range(stages_skipped) \cup Range(stages_failed)
Returned == exec_pc = "returned"

\* the orchestrator's stage_error events for a stage
StageErrors(name) ==
    {n \in 1..Len(all_events) :
        /\ all_events[n].source = "orchestrator"
        /\ all_events[n].event_type = "stage_error"
        /\ all_events[n].payload.stage = name}

\* a non-optional stage is among the failed ones
NonOptionalFailed ==
    \E k \in 1..Len(pipeline) : ~pipeline[k].optional /\ pipeline[k].name \in Range(stages_failed)
\* the loop was left by the break after a skip_remaining result
BrokeOff == Returned /\ result[1].error = None /\ idx < Len(pipeline)

\* C1: in every run the executed, skipped and failed stages together number
\* at most the stages of the pipeline, and exactly that many once execute has
\* returned, unless a stage set skip_remaining or a non-optional stage failed.
C1_StageAccounting ==
    LET total == Len(stages_executed) + Len(stages_skipped) + Len(stages_failed)
    IN  /\ total <= Len(pipeline)
        /\ (Returned /\ ~BrokeOff /\ ~NonOptionalFailed) => total = Len(pipeline)

\* C2 as stated: the returned success flag is true iff no non-optional stage failed.
C2_SuccessIffNoNonOptionalFailed ==
    Returned => (result[1].success <=> ~NonOptionalFailed)

\* C2 as amended: the returned success flag is true iff no stage at all
\* failed, optional or not.
C2_SuccessIffNoStageFailed ==
    Returned => (result[1].success <=> result[1].stages_failed = <<>>)

C2_Witness ==
    /\ Returned
    /\ result[1].stages_failed # <<>>
    /\ ~NonOptionalFailed
    /\ ~result[1].success
    /\ result[1].stages_executed # <<>>
    /\ Range(result[1].stages_executed) \cap Range(result[1].stages_failed) = {}

\* the optional stage k threw in validate or run
OptionalThrew(k) ==
    /\ pipeline[k].optional
    /\ \E n \in StageErrors(pipeline[k].name) : all_events[n].payload.error \in {"validate", "run"}

\* C3: when an optional stage throws in validate or run, it is recorded once
\* in stages_failed and not in stages_executed, exactly one stage_error event
\* is recorded for it, the run does not end because of it (the loop goes on
\* to the next stage, or returns normally when it was the last one), every
\* later stage reached is evaluated, and the result returned has success false.
C3_OptionalFailureContinues ==
    \A k \in 1..Len(pipeline) :
        OptionalThrew(k) =>
            /\ Occurrences(stages_failed, pipeline[k].name) = 1
            /\ pipeline[k].name \notin Range(stages_executed)
            /\ Cardinality(StageErrors(pipeline[k].name)) = 1
            /\ idx >= k
            /\ (Returned /\ idx = k) => (k = Len(pipeline) /\ result[1].error = None)
            /\ \A j \in (k + 1)..idx : pipeline[j].name \in Recorded
            /\ (Returned /\ ~BrokeOff /\ ~NonOptionalFailed) => idx = Len(pipeline)
            /\ Returned => ~result[1].success

\* the scenario [A, B optional, C] where only B throws, on the quicklook pipeline
C3_Witness ==
    /\ pipeline = Quicklook
    /\ Returned
    /\ OptionalThrew(2)
    /\ result[1].stages_executed = <<"gate", "intent">>
    /\ result[1].stages_failed = <<"static">>
    /\ result[1].stages_skipped = <<>>
    /\ ~result[1].success

\* C4: when a non-optional stage throws, execute has returned at that stage
\* with success false and an error, the stage is the last of stages_failed,
\* no later stage is in any of the three lists, and the worker leaves the job
\* failed.
C4_NonOptionalFailureHalts ==
    \A k \in 1..Len(pipeline) :
        (~pipeline[k].optional /\ pipeline[k].name \in Range(stages_failed)) =>
            /\ Returned
            /\ idx = k
            /\ ~result[1].success
            /\ result[1].error # None
            /\ Last(result[1].stages_failed) = pipeline[k].name
            /\ \A j \in (k + 1)..Len(pipeline) : pipeline[j].name \notin Recorded
            /\ (driver = "worker" /\ worker_pc \in {"done", "raised"}) => jobs[job_id].status = "failed"

C4_Witness ==
    /\ driver = "worker"
    /\ worker_pc = "done"
    /\ jobs[job_id].status = "failed"
    /\ NonOptionalFailed
    /\ idx < Len(pipeline)
    /\ \E n \in StageErrors(pipeline[idx].name) : all_events[n].payload.error = "run"

\* C5: a stage whose plugin returned success false is a failed stage: it is
\* in stages_failed with a stage_error event.  (last_result is the result of
\* the stage recorded last in stages_executed.)
C5_UnsuccessfulResultIsFailure ==
    (last_result # None /\ ~last_result[1].success) =>
        /\ Last(stages_executed) \in Range(stages_failed)
        /\ StageErrors(Last(stages_executed)) # {}

\* C6: a step that records a stage as failed or skipped adds nothing of that
\* stage to the findings, artifacts, plugin events, context or risk score.
C6_FailedOrSkippedContributesNothing ==
    [][ (stages_failed' # stages_failed \/ stages_skipped' # stages_skipped) =>
            /\ all_findings' = all_findings
            /\ all_artifacts' = all_artifacts
            /\ running_context' = running_context
            /\ max_risk' = max_risk
            /\ \A n \in (Len(all_events) + 1)..Len(all_events') :
                   all_events'[n].source = "orchestrator" /\ all_events'[n].event_type = "stage_error"
      ]_vars

\* the rows of one table carry the (plugin_id, stage) of an executed stage of the run
RowsOfExecutedStages(rows) ==
    \A n \in 1..Len(rows) :
        /\ rows[n].job_id \in DOMAIN jobs
        /\ {"plugin_id", "stage"} \subseteq DOMAIN rows[n]
        /\ \E k \in 1..Len(pipeline) :
             /\ pipeline[k].plugin_id = rows[n].plugin_id
             /\ pipeline[k].name = rows[n].stage
             /\ pipeline[k].name \in Range(result[1].stages_executed)

\* C7 as stated: every persisted finding, artifact and trace event belongs to
\* an existing job and carries the (plugin_id, stage) of an executed stage.
C7_PersistedRowsOfExecutedStages ==
    /\ RowsOfExecutedStages(db_findings)
    /\ RowsOfExecutedStages(db_artifacts)
    /\ RowsOfExecutedStages(db_trace_events)

\* C7 as amended: every persisted finding and artifact belongs to an existing
\* job and carries the (plugin_id, stage) of an executed stage of the job's
\* run; a persisted trace event belongs to an existing job and has no
\* plugin_id or stage column.
C7_PersistedFindingsOfExecutedStages ==
    /\ RowsOfExecutedStages(db_findings)
    /\ RowsOfExecutedStages(db_artifacts)
    /\ \A n \in 1..Len(db_trace_events) :
         /\ db_trace_events[n].job_id \in DOMAIN jobs
         /\ DOMAIN db_trace_events[n] \cap {"plugin_id", "stage"} = {}

C7_Witness ==
    /\ worker_pc = "done"
    /\ Len(db_findings) >= 2
    /\ Len(db_artifacts) >= 2
    /\ \E n \in 1..Len(db_trace_events) : db_trace_events[n].source = "plugin"
    /\ result[1].stages_failed # <<>>

\* C8: within a run pipeline_context["_risk_score"], once set, stays set and
\* never decreases.
C8_RiskScoreMonotone ==
    [][ "_risk_score" \in DOMAIN running_context =>
            /\ "_risk_score" \in DOMAIN running_context'
            /\ running_context'["_risk_score"] >= running_context["_risk_score"]
      ]_vars

\* C9: the risk_score returned is the final pipeline_context["_risk_score"],
\* 0.0 when the key was never set.
C9_ResultRiskIsContextRisk ==
    Returned => result[1].risk_score = DictGet(running_context, "_risk_score", 0)

\* C10: an on_high_risk stage is skipped exactly when no earlier stage of the
\* run reported a risk_score of 0.7 or more (max_risk is the largest score
\* reported so far).
C10_HighRiskStageRunsIffReported ==
    [][ (exec_pc = "loop" /\ pipeline[idx + 1].condition = "on_high_risk" /\ idx' = idx + 1) =>
            (stages_skipped' # stages_skipped <=> max_risk < HighRisk)
      ]_vars

\* C11: whenever a stage is evaluated while no earlier stage of the run has
\* produced a result (no stage is in stages_executed, so last_result is
\* None), it is executed (it runs or throws, and is not skipped) if its
\* condition is always, and it is skipped, and nothing else recorded, for
\* every other condition.
C11_OnlyAlwaysRunsWithoutResult ==
    [][ (exec_pc = "loop" /\ idx' = idx + 1 /\ stages_executed = <<>>) =>
            LET stage == pipeline[idx + 1]
            IN  /\ last_result = None
                /\ IF stage.condition = "always"
                   THEN /\ stages_skipped' = stages_skipped
                        /\ stage.name \in Range(stages_executed') \cup Range(stages_failed')
                   ELSE /\ stages_skipped' = Append(stages_skipped, stage.name)
                        /\ stages_executed' = stages_executed
                        /\ stages_failed' = stages_failed
      ]_vars

\* the first stage threw and the second one, which is not the first stage
\* and has a condition other than always, was skipped for want of a result
C11_Witness ==
    /\ idx = 2
    /\ stages_failed = <<"s1">>
    /\ stages_executed = <<>>
    /\ stages_skipped = <<"s2">>
    /\ pipeline[1].condition = "always"
    /\ pipeline[2].condition = "on_failure"

\* the stage before the one about to be evaluated ended in failure: it
\* threw and is in stages_failed, or its result had success false
PrevStageFailed ==
    LET prev == pipeline[idx].name
    IN  \/ prev \in Range(stages_failed)
        \/ stages_executed # <<>> /\ Last(stages_executed) = prev /\ ~last_result[1].success
\* the stage before the one about to be evaluated returned a result with success true
PrevStageSucceeded ==
    /\ stages_executed # <<>>
    /\ Last(stages_executed) = pipeline[idx].name
    /\ last_result[1].success

\* C12: a non-first stage with condition on_failure is executed if and only
\* if the stage immediately before it ended in failure, and a non-first stage
\* with condition on_success is executed if and only if the result of the
\* stage immediately before it had success true.
C12_ConditionReadsPrecedingStage ==
    [][ (exec_pc = "loop" /\ idx >= 1 /\ idx' = idx + 1) =>
            LET stage == pipeline[idx + 1]
                executed == stages_skipped' = stages_skipped
            IN  /\ stage.condition = "on_failure" => (executed <=> PrevStageFailed)
                /\ stage.condition = "on_success" => (executed <=> PrevStageSucceeded)
      ]_vars

\* C13: when the result of a stage has skip_remaining true, the stage is in
\* stages_executed with its outputs aggregated and its stage_complete event
\* recorded, execute returns at that stage, no later stage is in any of the
\* three lists, and the result returned has success true.
C13_SkipRemainingHalts ==
    [][ \A res \in PluginResults(job_id), callback_raises \in BOOLEAN, seconds \in RunSeconds :
            (res.skip_remaining /\ StageRun(res, callback_raises, seconds)) =>
                LET stage == pipeline[idx + 1]
                IN  /\ stages_executed' = Append(stages_executed, stage.name)
                    /\ all_findings' = all_findings \o Annotate(res.findings, stage)
                    /\ all_artifacts' = all_artifacts \o Annotate(res.artifacts, stage)
                    /\ \E n \in 1..Len(all_events') :
                         /\ all_events'[n].source = "orchestrator"
                         /\ all_events'[n].event_type = "stage_complete"
                         /\ all_events'[n].payload.stage = stage.name
                    /\ exec_pc' = "returned"
                    /\ \A j \in (idx + 2)..Len(pipeline) :
                         pipeline[j].name \notin
                           Range(stages_executed') \cup Range(stages_skipped') \cup Range(stages_failed')
                    /\ result'[1].success
      ]_vars

\* the stage k failed before run was called: get_instance or validate threw
FailedBeforeRun(k) ==
    \E n \in StageErrors(pipeline[k].name) : all_events[n].payload.error \in {"get_instance", "validate"}

\* C14: when the plugin of a stage is missing from the registry or its
\* validate rejects the context, run is not invoked for the stage (it is not
\* in stages_executed, no stage_complete event and no finding carry its
\* name), it is recorded once in stages_failed with one stage_error event,
\* the loop goes on when the stage is optional and execute returns an error
\* result at that stage otherwise; the failure arises when the stage is
\* reached, after every earlier stage was evaluated, and execute of a
\* registered pipeline never raises before its first stage.
C14_FailureBeforeRunIsStageFailure ==
    /\ pipeline_known => exec_pc # "raised"
    /\ \A k \in 1..Len(pipeline) :
         FailedBeforeRun(k) =>
            LET name == pipeline[k].name
            IN  /\ name \notin Range(stages_executed)
                /\ \A n \in 1..Len(all_events) :
                     (all_events[n].source = "orchestrator" /\ all_events[n].event_type = "stage_complete")
                        => all_events[n].payload.stage # name
                /\ \A n \in 1..Len(all_findings) : all_findings[n].stage # name
                /\ Occurrences(stages_failed, name) = 1
                /\ Cardinality(StageErrors(name)) = 1
                /\ idx >= k
                /\ \A j \in 1..(k - 1) : pipeline[j].name \in Recorded
                /\ pipeline[k].optional =>
                     ((Returned /\ idx = k) => (k = Len(pipeline) /\ result[1].error = None))
                /\ ~pipeline[k].optional =>
                     (Returned /\ idx = k /\ ~result[1].success /\ result[1].error # None)

\* quicklook with the plugin of the optional stage missing (the run went on)
\* and validate of the next, non-optional stage rejecting (the run ended)
C14_Witness ==
    /\ pipeline = Quicklook
    /\ Returned
    /\ result[1].stages_executed = <<"gate">>
    /\ result[1].stages_failed = <<"static", "intent">>
    /\ \E n \in StageErrors("static") : all_events[n].payload.error = "get_instance"
    /\ \E n \in StageErrors("intent") : all_events[n].payload.error = "validate"
    /\ result[1].error # None

\* C15: a stage whose plugin.run takes longer than the stage's
\* timeout_seconds is a failed stage: it is in stages_failed and not in
\* stages_executed, a stage_error event is recorded for it, execute returns
\* an error result at once when the stage is not optional, and the
\* loop goes on when it is optional.
C15_TimedOutStageFails ==
    [][ \A res \in PluginResults(job_id), callback_raises \in BOOLEAN, seconds \in RunSeconds :
            (StageRun(res, callback_raises, seconds) /\ seconds > pipeline[idx + 1].timeout_seconds) =>
                LET stage == pipeline[idx + 1]
                IN  /\ stages_failed' = Append(stages_failed, stage.name)
                    /\ stages_executed' = stages_executed
                    /\ Last(all_events').source = "orchestrator"
                    /\ Last(all_events').event_type = "stage_error"
                    /\ Last(all_events').payload.stage = stage.name
                    /\ ~stage.optional =>
                         (exec_pc' = "returned" /\ ~result'[1].success /\ result'[1].error # None)
                    /\ stage.optional => (result' = None \/ result'[1].error = None)
      ]_vars

\* the event at position n of all_events was recorded by the executor itself, with one of the types
OrchestratorEvent(n, types) ==
    all_events[n].source = "orchestrator" /\ all_events[n].event_type \in types

\* C16: in the event list of a run every executed stage is bracketed: going
\* back from the stage_complete event of the stage over the events its
\* plugin returned, the event before them is an orchestrator stage_start
\* event, so that each executed stage has a stage_start event of its own in
\* front of its plugin's events and its stage_complete event behind them.
C16_StagesBracketed ==
    \A c \in 1..Len(all_events) :
        OrchestratorEvent(c, {"stage_complete"}) =>
            \E s \in 1..(c - 1) :
                /\ OrchestratorEvent(s, {"stage_start"})
                /\ \A n \in (s + 1)..(c - 1) : all_events[n].source # "orchestrator"

\* C17: the trace events persisted for one job carry sequence numbers that
\* increase in the order the executor recorded them (the order of the rows),
\* so that (ts, sequence) tells any two of them apart even when the clock
\* gave both the same ts.
C17_SequenceIncreasing ==
    \A i, j \in 1..Len(db_trace_events) :
        (i < j /\ db_trace_events[i].job_id = db_trace_events[j].job_id) =>
            db_trace_events[i].sequence < db_trace_events[j].sequence

\* the statuses a job does not leave
TerminalStatuses == {"completed", "failed", "cancelled"}

\* C18: once the worker task of an existing job has returned or raised, the
\* status of the job is completed, failed or cancelled, and the job carries
\* completed_at >= started_at >= created_at.
C18_FinishedJobIsTerminalAndTimed ==
    (driver = "worker" /\ worker_pc \in {"done", "raised"} /\ job_id \in DOMAIN jobs) =>
        LET J == jobs[job_id]
        IN  /\ J.status \in TerminalStatuses
            /\ {"created_at", "started_at", "completed_at"} \subseteq DOMAIN J
            /\ J.completed_at >= J.started_at
            /\ J.started_at >= J.created_at

\* the edges of the job lifecycle
StatusEdges ==
    { <<"pending", "running">>, <<"running", "completed">>, <<"running", "failed">>,
      <<"pending", "cancelled">>, <<"running", "cancelled">> }

\* C19: the status of a job row changes only along the edges of the
\* lifecycle; in particular a status of completed, failed or cancelled is
\* never changed again.
C19_StatusFollowsLifecycle ==
    [][ \A j \in DOMAIN jobs :
            jobs'[j].status # jobs[j].status => <<jobs[j].status, jobs'[j].status>> \in StatusEdges
      ]_vars

\* C20: while the worker handles a task that was delivered again after the
\* earlier delivery had left the job in a terminal status, the job's status
\* and result stay as they were, no stage is executed, and no finding,
\* artifact, trace-event or generic-event row is written.
C20_RedeliveryIsNoOp ==
    [][ (deliveries > 1 /\ job_id \in DOMAIN jobs) =>
            /\ jobs' = jobs
            /\ stages_executed' = stages_executed
            /\ db_findings' = db_findings
            /\ db_artifacts' = db_artifacts
            /\ db_trace_events' = db_trace_events
            /\ db_events' = db_events
      ]_vars

(***************************************************************************)
(* Worker: errors                                                          *)
(***************************************************************************)
\* the job_failed events of the store, by position
JobFailedEvents == {n \in 1..Len(db_events) : db_events[n].event_type = "job_failed"}
WorkerFinished == driver = "worker" /\ worker_pc \in {"done", "raised"}

\* C21: when the target path of a job does not exist, the first delivery of
\* its task ends with the job failed, no stage executed or failed (no plugin
\* was asked to validate or run), and exactly one job_failed event.
C21_MissingTargetFailsBeforeAnyStage ==
    (~target_exists /\ deliveries = 1 /\ WorkerFinished) =>
        /\ jobs[job_id].status = "failed"
        /\ stages_executed = <<>>
        /\ stages_failed = <<>>
        /\ Cardinality(JobFailedEvents) = 1

\* the message of the exception that left the task
EscapedMessage == IF exec_pc = "raised" THEN "Unknown pipeline" ELSE "store write failed"

ResultRows == Len(result[1].total_findings) + Len(result[1].total_artifacts)
                + Len(result[1].total_events)
StoredRows == Len(db_findings) + Len(db_artifacts) + Len(db_trace_events)

\* C23: when the write of one row fails while the worker stores the results,
\* every other row is stored and the job's status is the one the pipeline
\* result gives (completed on success, failed otherwise).
C23_FailedRowWriteIsIsolated ==
    (WorkerFinished /\ exec_pc = "returned") =>
        /\ StoredRows >= ResultRows - 1
        /\ jobs[job_id].status = (IF result[1].success THEN "completed" ELSE "failed")

(***************************************************************************)
(* Cancellation: properties                                                *)
(***************************************************************************)
CancelledWhile(status) == cancel_call # None /\ cancel_call[1].status = status

\* C24: a job cancelled while it is pending is cancelled from then on; the
\* worker that later takes its task executes no stage and stores no finding
\* and no artifact.
C24_CancelledWhilePendingNeverRuns ==
    CancelledWhile("pending") =>
        /\ jobs[job_id].status = "cancelled"
        /\ exec_pc = "idle"
        /\ stages_executed = <<>>
        /\ db_findings = <<>>
        /\ db_artifacts = <<>>

\* C25: after a cancel of a running job at most the stage in flight is still
\* run, and the job's status stays cancelled to the end.
C25_CancelNoticedBetweenStages ==
    CancelledWhile("running") =>
        /\ Len(stages_executed) + Len(stages_failed) <= cancel_call[1].started + 1
        /\ jobs[job_id].status = "cancelled"

(***************************************************************************)
(* get_instance: properties                                                *)
(***************************************************************************)
\* the calls of get_instance that returned an instance, by position
ReturnedCalls == {n \in 1..Len(returned) : ~returned[n].raised}

\* C26: any two calls get_instance(id, cfg) with the same id and equal cfg
\* return the same instance, whatever other calls happen in between.
C26_EqualConfigSameInstance ==
    \A m, n \in ReturnedCalls :
        (returned[m].plugin_id = returned[n].plugin_id /\ returned[m].config = returned[n].config)
            => returned[m].instance.serial = returned[n].instance.serial

\* C27: for one (plugin_id, config) at most one instance is ever created,
\* also when the calls that miss the cache overlap, and every call for it
\* receives that instance.
C27_OneInstancePerKey ==
    /\ \A m, n \in 1..Len(created) :
          (created[m].manifest = created[n].manifest /\ created[m].config = created[n].config)
              => m = n
    /\ \A n \in ReturnedCalls, m \in 1..Len(created) :
          (created[m].manifest = returned[n].plugin_id /\ created[m].config = returned[n].config)
              => returned[n].instance.serial = created[m].serial

(***************************************************************************)
(* resolve_dependencies: properties                                        *)
(***************************************************************************)
\* the ids the manifest of id names as dependencies
DependsOn(id) == IF id \in DOMAIN _manifests THEN Range(_manifests[id].dependencies) ELSE {}

RECURSIVE Closure(_)
\* ids reachable from the ids of S along dependencies, S included
Closure(S) ==
    LET more == S \cup UNION {DependsOn(id) : id \in S}
    IN  IF more = S THEN S ELSE Closure(more)

\* the transitive dependencies of id
TransitiveDeps(id) == Closure(DependsOn(id))
Acyclic == \A id \in DOMAIN _manifests : id \notin TransitiveDeps(id)
Resolved(outcome) == resolved # None /\ resolved[1].outcome = outcome

\* position of id in the returned list (0 when absent)
Position(id) ==
    LET at == {n \in 1..Len(resolved[1].order) : resolved[1].order[n] = id}
    IN  IF at = {} THEN 0 ELSE CHOOSE n \in at : TRUE

\* the returned list names no id twice, is ordered dependencies first and ends with p
TopologicalWithSelfLast ==
    LET order == resolved[1].order
    IN  /\ \A id \in Range(order) : Occurrences(order, id) = 1
        /\ \A id \in Range(order) : \A dep \in DependsOn(id) \cap Range(order) :
              Position(dep) < Position(id)
        /\ order # <<>>
        /\ Last(order) = resolved[1].plugin_id

\* C28 as stated: on an acyclic graph the list holds p and every transitive
\* dependency of p exactly once, dependencies first, p last.
C28_ResolvesEveryDependency ==
    (Resolved("returned") /\ Acyclic) =>
        /\ Range(resolved[1].order) = {resolved[1].plugin_id} \cup TransitiveDeps(resolved[1].plugin_id)
        /\ TopologicalWithSelfLast

\* C28 amended: on an acyclic graph the list holds p and every transitive
\* dependency of p that has a recorded manifest exactly once, each after
\* its own dependencies, p last.
C28_ResolvesEveryRecordedDependency ==
    (Resolved("returned") /\ Acyclic) =>
        /\ Range(resolved[1].order) =
              ({resolved[1].plugin_id} \cup TransitiveDeps(resolved[1].plugin_id))
                  \cap DOMAIN _manifests
        /\ TopologicalWithSelfLast

\* a plugin with a chain of two recorded dependencies and nothing missing below it
C28_Witness ==
    /\ Resolved("returned")
    /\ Acyclic
    /\ Len(resolved[1].order) = 3
    /\ TransitiveDeps(resolved[1].plugin_id) \subseteq DOMAIN _manifests
    /\ \E id \in DependsOn(resolved[1].plugin_id) : DependsOn(id) # {}

\* C29: when the graph reachable from p has a cycle, resolve_dependencies
\* ends with a manifest-validation error and returns no ordering.
C29_CycleIsReported ==
    (resolved # None /\ resolved[1].plugin_id \in DOMAIN _manifests
       /\ \E id \in Closure({resolved[1].plugin_id}) : id \in TransitiveDeps(id))
        => resolved[1].outcome = "ManifestError"

(***************************************************************************)
(* discover: properties                                                    *)
(***************************************************************************)
\* a bundle: a directory that holds a plugin.yaml
Bundles == {n \in 1..Len(plugins_dir) : plugins_dir[n].is_dir /\ plugins_dir[n].yaml # "absent"}
Field(n, field) == plugins_dir[n].data[field]
Has(n, field) == field \in DOMAIN plugins_dir[n].data

\* the bad bundles the claim lists: manifest unparsable, a required field
\* missing, unknown kind, empty id, empty version, empty capabilities
ListedBad(n) ==
    \/ plugins_dir[n].yaml = "unparsable"
    \/ \E field \in {"id", "name", "version", "kind"} : ~Has(n, field)
    \/ Field(n, "kind") \notin PluginKind
    \/ Field(n, "id") = <<>>
    \/ Field(n, "version") = ""
    \/ ~Has(n, "capabilities")
    \/ Field(n, "capabilities") = <<>>

\* an id with a character other than letters, digits, "_" and "-", or
\* without any letter or digit
MalformedId(n) ==
    /\ plugins_dir[n].yaml = "mapping"
    /\ Has(n, "id")
    /\ \/ \E k \in 1..Len(Field(n, "id")) : Field(n, "id")[k] \notin AlnumChars \cup {"_", "-"}
       \/ \A k \in 1..Len(Field(n, "id")) : Field(n, "id")[k] \notin AlnumChars

RECURSIVE IdsOf(_, _)
\* the ids of the bundles of the set, in directory order from entry k on
IdsOf(good, k) ==
    IF k > Len(plugins_dir)
    THEN <<>>
    ELSE IF k \in good
         THEN <<Field(k, "id")>> \o IdsOf(good, k + 1)
         ELSE IdsOf(good, k + 1)

\* discover returned the ids of exactly the bundles of the set, and recorded them
DiscoveredExactly(good) ==
    /\ discovered[1] = IdsOf(good, 1)
    /\ DOMAIN _manifests = Range(discovered[1])
    /\ \A id \in DOMAIN _manifests : _manifests[id].id = id

Stored(field) == jobs[job_id].result # None /\ field \in DOMAIN jobs[job_id].result[1]

\* C32: a job the worker left in status failed has an error in its stored
\* result, whatever made it fail.
C32_FailedJobCarriesError ==
    (WorkerFinished /\ jobs[job_id].status = "failed") => Stored("error")

\* C39: whenever the job's stored result is a pipeline summary, the finding
\* rows and artifact rows in the store number findings_count and
\* artifacts_count, however often the task was delivered; a completed job
\* has all its rows.
C39_StoredRowsMatchSummary ==
    (driver = "worker" /\ Stored("findings_count")) =>
        /\ Len(db_findings) = jobs[job_id].result[1].findings_count
        /\ Len(db_artifacts) = jobs[job_id].result[1].artifacts_count

(***************************************************************************)
(* The returned result                                                     *)
(***************************************************************************)
\* C35: in the result execute returns, no stage name is in two of the lists
\* stages_executed, stages_skipped and stages_failed, or twice in one.
C35_StageListsDisjoint ==
    Returned =>
        LET all == result[1].stages_executed \o result[1].stages_skipped
                     \o result[1].stages_failed
        IN  \A name \in Range(all) : Occurrences(all, name) = 1

\* the orchestrator's events of the given type in the returned list, in order
ReturnedEvents(type) ==
    SelectSeq(result[1].total_events,
              LAMBDA e : e.source = "orchestrator" /\ e.event_type = type)
\* the stages they name
StagesNamed(events) == [n \in 1..Len(events) |-> events[n].payload.stage]

\* C40: the returned event list starts with the only orchestrator
\* stage_start event; the stage_complete events name the executed stages in
\* order and the stage_error events the failed stages in order; every event
\* of a plugin is followed, after further plugin events at most, by a
\* stage_complete event.
C40_EventsFollowTheRun ==
    Returned =>
        LET evs == result[1].total_events
        IN  /\ Len(ReturnedEvents("stage_start")) = 1
            /\ evs[1] = ReturnedEvents("stage_start")[1]
            /\ StagesNamed(ReturnedEvents("stage_complete")) = result[1].stages_executed
            /\ StagesNamed(ReturnedEvents("stage_error")) = result[1].stages_failed
            /\ \A n \in 1..Len(evs) :
                  evs[n].source # "orchestrator" =>
                      \E c \in (n + 1)..Len(evs) :
                          /\ evs[c].source = "orchestrator"
                          /\ evs[c].event_type = "stage_complete"
                          /\ \A between \in (n + 1)..(c - 1) : evs[between].source # "orchestrator"

\* a run with two executed stages, a failed one, and events from a plugin
C40_Witness ==
    /\ Returned
    /\ Len(result[1].stages_executed) >= 2
    /\ result[1].stages_failed # <<>>
    /\ \E n \in 1..Len(result[1].total_events) : result[1].total_events[n].source = "plugin"

(***************************************************************************)
(* Plugin registry: further properties                                     *)
(***************************************************************************)
\* C36: the instance a call get_instance(id, cfg) returns was built with
\* cfg: calls with the same id and different configs do not share an
\* instance, also when the configs have the same hash.
C36_InstanceHasTheConfigAskedFor ==
    \A n \in ReturnedCalls :
        /\ returned[n].instance.manifest = returned[n].plugin_id
        /\ returned[n].instance.config = returned[n].config

\* C37: a call of resolve_dependencies(p) that returns has entered visit at
\* most once per id and at most once per id there is, lists no id twice, and
\* lists exactly the ids reachable from p that have a recorded manifest;
\* this on every graph, cyclic or with missing ids.
C37_ResolveVisitsOnceAndOmitsMissing ==
    Resolved("returned") =>
        LET p == resolved[1].plugin_id
        IN  /\ \A id \in Range(resolved[1].visits) : Occurrences(resolved[1].visits, id) = 1
            /\ Range(resolved[1].visits) = Closure({p})
            /\ Len(resolved[1].visits) <= Cardinality(GraphIds)
            /\ \A id \in Range(resolved[1].order) : Occurrences(resolved[1].order, id) = 1
            /\ Range(resolved[1].order) = Closure({p}) \cap DOMAIN _manifests

\* a graph with a cycle through p and a dependency that has no manifest
C37_Witness ==
    /\ Resolved("returned")
    /\ resolved[1].plugin_id \in TransitiveDeps(resolved[1].plugin_id)
    /\ Closure({resolved[1].plugin_id}) \ DOMAIN _manifests # {}
    /\ Len(resolved[1].order) = 2

(***************************************************************************)
(* Data flow between stages                                                *)
(***************************************************************************)
\* The JobContext of the stage invoked next is built from all_findings,
\* all_artifacts and running_context as they are then.  These hold what the
\* claim says if they are empty at first (Init) and every step of the loop
\* changes them as the claim says.

\* the items a plugin returned, as they are kept for the later stages
Kept(items, stage) ==
    [n \in 1..Len(items) |-> [items[n] EXCEPT !.plugin_id = stage.plugin_id, !.stage = stage.name]]

\* the step records the stage as executed and appends its findings and artifacts
AppendsOutputs(res) ==
    /\ stages_executed' = Append(stages_executed, pipeline[idx + 1].name)
    /\ all_findings' = all_findings \o Kept(res.findings, pipeline[idx + 1])
    /\ all_artifacts' = all_artifacts \o Kept(res.artifacts, pipeline[idx + 1])

\* a step of the loop for a stage that is skipped or throws before it has a
\* result changes none of them
OtherStepsKeepFlow ==
    (StageSkipped \/ \E cause \in RaiseCauses : StageRaises(cause)) =>
        /\ stages_executed' = stages_executed
        /\ all_findings' = all_findings
        /\ all_artifacts' = all_artifacts
        /\ running_context' = running_context

\* the context after merging the context_data of a result, later keys winning
Merged(res) ==
    [k \in (DOMAIN running_context) \cup (DOMAIN res.context_data) |->
        IF k \in DOMAIN res.context_data THEN res.context_data[k] ELSE running_context[k]]

\* the same with _risk_score set to the highest risk score returned so far,
\* when the result has a risk score other than 0
MergedWithRisk(res) ==
    IF res.risk_score # None /\ res.risk_score[1] # 0
    THEN [k \in (DOMAIN Merged(res)) \cup {"_risk_score"} |->
            IF k = "_risk_score"
            THEN (IF res.risk_score[1] > max_risk THEN res.risk_score[1] ELSE max_risk)
            ELSE Merged(res)[k]]
    ELSE Merged(res)

C31_WorkspaceRemovedArtifactsKept ==
    WorkerFinished =>
        /\ WorkspaceDir(job_id) \notin dirs
        /\ ArtifactsDir(job_id) \in dirs

(***************************************************************************)
(* API and queue: properties                                               *)
(***************************************************************************)
\* C33: a POST /jobs that is accepted adds one row, under an id no row had,
\* in status pending, and sends one task for it; tasks are sent by nothing
\* else; and a step that changes the row of a job is a step of the worker on
\* that job's task and changes the row of no other job.
C33_PostCreatesOneJobAndOneTask ==
    [][ /\ (Len(posts') > Len(posts) /\ Last(posts').accepted) =>
              /\ Last(posts').job_id \notin DOMAIN jobs
              /\ DOMAIN jobs' = DOMAIN jobs \cup {Last(posts').job_id}
              /\ jobs'[Last(posts').job_id].status = "pending"
              /\ queue' = Append(queue, [job_id |-> Last(posts').job_id,
                                         target |-> Last(posts').payload.target])
        /\ Len(queue') > Len(queue) => Len(posts') > Len(posts)
        /\ \A j \in DOMAIN jobs :
              jobs'[j] # jobs[j] =>
                  /\ job_id' = j
                  /\ worker_pc' \in {"executing", "done", "raised"}
                  /\ Len(posts') = Len(posts)
                  /\ \A other \in (DOMAIN jobs) \ {j} : jobs'[other] = jobs[other]
      ]_vars

\* the same payload was posted twice: two rows, one job completed and the other failed
C33_Witness ==
    /\ Len(posts) = 2
    /\ posts[1].accepted /\ posts[2].accepted
    /\ posts[1].payload = posts[2].payload
    /\ posts[1].job_id # posts[2].job_id
    /\ jobs[posts[1].job_id].status = "completed"
    /\ jobs[posts[2].job_id].status = "failed"

\* C38, in a form a finite run refutes: a job that is not completed or
\* failed has its task in the queue or in the hands of the worker (a job
\* without either stays as it is forever, whatever the scheduling).
C38_UnfinishedJobHasATask ==
    \A j \in DOMAIN jobs :
        jobs[j].status \notin {"completed", "failed"} =>
            \/ \E n \in 1..Len(queue) : queue[n].job_id = j
            \/ job_id = j /\ worker_pc \in {"queued", "executing"}


====
